---- MODULE Spec2Model ----
(***************************************************************************)
(* Model of the medicine-box data service (services/dataService.ts): the   *)
(* two persisted collections (boxes with nested medicines, alerts), the    *)
(* dose tick, the low-stock tick, the alert operations and the box and     *)
(* medicine CRUD operations, each running to completion on one thread.     *)
(*                                                                         *)
(* Time is counted in whole minutes.  A day has DayLen minutes, so the     *)
(* HH:MM string of an instant is  now % DayLen  and its calendar date is   *)
(* now \div DayLen; a schedule token is the HH:MM value it spells.  A free *)
(* text (customMessage) is represented by the set of HH:MM values that     *)
(* occur in it as substrings, which is all String.includes() can observe.  *)
(*                                                                         *)
(* op, ret, saved and pre record the last call: its name, what it returned *)
(* or threw, the storage keys it wrote and the two collections as they     *)
(* were stored when it was called.  minute is a log of the current         *)
(* clock minute: per medicine id, how many doses were deducted and how     *)
(* many medicine_time alerts were created since the clock last moved.      *)
(***************************************************************************)
EXTENDS Integers, Sequences, FiniteSets, TLC

VARIABLES boxes, alerts, now, nextBoxId, nextMedId, op, ret, saved, pre, minute,
          localStorage, inflight

vars == <<boxes, alerts, now, nextBoxId, nextMedId, op, ret, saved, pre, minute,
          localStorage, inflight>>

(* ---------------------------- bounds ----------------------------------- *)
DayLen == 2
MaxNow == 3
MaxBoxes == 1
MaxMeds == 1
MaxCount == 5
MaxAlerts == 3
MaxLog == 2
MaxTimesPerDay == 2
MaxInflight == 1

(* ------------------------- program constants --------------------------- *)
LowThreshold == 3
RetentionDays == 1

Undefined == -1

MEDICINE_BOXES == "smart_medicine_boxes"
ALERTS == "smart_medicine_alerts"

(* localStorage as the data service's own reads and writes leave it is    *)
(* followed in its parsed form, by boxes and alerts; the variable          *)
(* localStorage holds items in their text form where the storage helpers   *)
(* themselves are under study.  inflight is the device request a data      *)
(* service handler is waiting for, if any.                                 *)
NoItems == <<>>
NoRequest == <<>>

(* ------------------------------ helpers -------------------------------- *)
Max(a, b) == IF a >= b THEN a ELSE b
Min(a, b) == IF a <= b THEN a ELSE b

Range(s) == {s[i] : i \in DOMAIN s}

(* Array.prototype.filter with the elements to keep given as a set         *)
RECURSIVE Filter(_, _)
Filter(s, keep) ==
  IF s = <<>> THEN <<>>
  ELSE IF Head(s) \in keep THEN <<Head(s)>> \o Filter(Tail(s), keep)
       ELSE Filter(Tail(s), keep)

(* now.toTimeString().slice(0, 5) and now.toDateString() *)
toTimeString(t) == t % DayLen
toDateString(t) == t \div DayLen

(* Math.random().toString(36).substr(2, 9) for an alert: an id that no     *)
(* stored alert carries.                                                   *)
NewAlertId(as) ==
  LET used == {a.id : a \in Range(as)}
  IN  CHOOSE i \in 1..(Cardinality(used) + 1) :
        /\ i \notin used
        /\ \A j \in 1..(Cardinality(used) + 1) : j \notin used => i <= j

(* A missing or empty customMessage, and the times spelled in the default  *)
(* text 'Take as prescribed.'                                              *)
NoText == {}
TakeAsPrescribed == {}

(* The text of a medicine_time alert:                                      *)
(*   `Time to take your ${name} (${scheduleTime}). ${customMessage || ..}` *)
TimeMessage(medicine, scheduleTime) ==
  [name |-> medicine.name, time |-> scheduleTime, count |-> Undefined,
   custom |-> IF medicine.customMessage = NoText THEN TakeAsPrescribed
              ELSE medicine.customMessage]

(* `${name} is running low (${currentCount} pills remaining). ...`         *)
LowMessage(medicine) ==
  [name |-> medicine.name, time |-> Undefined, count |-> medicine.currentCount,
   custom |-> {}]

(* `${name} is out of stock! Please refill immediately.`                   *)
OutMessage(medicine) ==
  [name |-> medicine.name, time |-> Undefined, count |-> Undefined,
   custom |-> {}]

(* Variant: the containment test reads medicineName instead of message.    *)
IncludesInName(message, scheduleTime) == scheduleTime \in {}

(* alert.message.includes(scheduleTime) for an HH:MM scheduleTime           *)
Includes(message, scheduleTime) ==
  \/ message.time = scheduleTime
  \/ scheduleTime \in message.custom

(* Variant: isRead: true                                                   *)
MkAlertRead(id, medicine, box, type, message, t) ==
  [id |-> id, medicineId |-> medicine.id, medicineName |-> medicine.name,
   boxName |-> box.name, type |-> type, message |-> message,
   isRead |-> TRUE, createdAt |-> t]

MkAlert(id, medicine, box, type, message, t) ==
  [id |-> id, medicineId |-> medicine.id, medicineName |-> medicine.name,
   boxName |-> box.name, type |-> type, message |-> message,
   isRead |-> FALSE, createdAt |-> t]

(* Object spread {...object, ...updates}                                   *)
Spread(object, updates) ==
  [f \in DOMAIN object \cup DOMAIN updates |->
     IF f \in DOMAIN updates THEN updates[f] ELSE object[f]]

(* boxes.findIndex(box => box.id === id); 0 stands for -1                  *)
findIndex(s, id) ==
  IF \E i \in DOMAIN s : s[i].id = id
  THEN CHOOSE i \in DOMAIN s : s[i].id = id /\ \A j \in 1..(i - 1) : s[j].id # id
  ELSE 0

(* What a call hands back: the list it returns (empty for the operations   *)
(* that return nothing or a single entity) or the Error it throws.         *)
Returned(list) == [error |-> "", alerts |-> list]
Void == Returned(<<>>)
Thrown(message) == [error |-> message, alerts |-> <<>>]

(* The two collections as storage holds them *)
Stored == [boxes |-> boxes, alerts |-> alerts]

(* --------------------------- checkMedicineTimes ------------------------ *)
(* Variant: only an alert that was read counts as processed.               *)
ExistingReadTimeAlert(as, medicine, scheduleTime, currentDate) ==
  \E i \in DOMAIN as :
    /\ as[i].medicineId = medicine.id
    /\ as[i].type = "medicine_time"
    /\ toDateString(as[i].createdAt) = currentDate
    /\ Includes(as[i].message, scheduleTime)
    /\ as[i].isRead

(* Variant: the lookup asks for the type 'schedule_reminder'.              *)
ExistingReminderAlert(as, medicine, scheduleTime, currentDate) ==
  \E i \in DOMAIN as :
    /\ as[i].medicineId = medicine.id
    /\ as[i].type = "schedule_reminder"
    /\ toDateString(as[i].createdAt) = currentDate
    /\ Includes(as[i].message, scheduleTime)

ExistingTimeAlert(as, medicine, scheduleTime, currentDate) ==
  \E i \in DOMAIN as :
    /\ as[i].medicineId = medicine.id
    /\ as[i].type = "medicine_time"
    /\ toDateString(as[i].createdAt) = currentDate
    /\ Includes(as[i].message, scheduleTime)

(* Variant: the test on isRead is inverted.                                *)
ExistingLowAlertRead(as, medicine) ==
  \E a \in Range(as) :
    a.medicineId = medicine.id /\ a.type = "low_count" /\ a.isRead

(* Variant: the lookup does not look at isRead.                            *)
ExistingLowAlertAnyRead(as, medicine) ==
  \E i \in DOMAIN as :
    /\ as[i].medicineId = medicine.id
    /\ as[i].type = "low_count"

ExistingLowAlert(as, medicine) ==
  \E i \in DOMAIN as :
    /\ as[i].medicineId = medicine.id
    /\ as[i].type = "low_count"
    /\ ~as[i].isRead

(* Variant: the count is not looked at.                                    *)
IsDueAnyCount(medicine, scheduleTime, currentTime) == scheduleTime = currentTime

(* scheduleTime === currentTime && medicine.currentCount > 0               *)
IsDue(medicine, scheduleTime, currentTime) ==
  scheduleTime = currentTime /\ medicine.currentCount > 0

(* Variant: the lower limit is missing.                                    *)
IsLowCountNoFloor(currentCount) == currentCount <= LowThreshold

(* medicine.currentCount <= 3 && medicine.currentCount > 0                 *)
IsLowCount(currentCount) == currentCount <= LowThreshold /\ currentCount > 0

(* medicine.currentCount === 0                                             *)
IsOutOfStock(currentCount) == currentCount = 0

(* One pass of the scheduleTimes.forEach body.  acc carries the medicine   *)
(* being mutated, the working alerts array and newAlerts.                  *)
DoseStep(acc, box, scheduleTime, t) ==
  LET medicine == acc.medicine
      currentTime == toTimeString(t)
      currentDate == toDateString(t)
  IN
  IF /\ IsDue(medicine, scheduleTime, currentTime)
     /\ ~ExistingTimeAlert(acc.alerts, medicine, scheduleTime, currentDate)
  THEN
    LET m1 == [medicine EXCEPT !.currentCount = Max(0, medicine.currentCount - 1),
                               !.updatedAt = t]
        timeAlert == MkAlert(NewAlertId(acc.alerts), m1, box, "medicine_time",
                             TimeMessage(m1, scheduleTime), t)
        a1 == Append(acc.alerts, timeAlert)
        n1 == Append(acc.newAlerts, timeAlert)
        low == IsLowCount(m1.currentCount) /\ ~ExistingLowAlert(a1, m1)
        lowCountAlert == MkAlert(NewAlertId(a1), m1, box, "low_count",
                                 LowMessage(m1), t)
        a2 == IF low THEN Append(a1, lowCountAlert) ELSE a1
        n2 == IF low THEN Append(n1, lowCountAlert) ELSE n1
        out == IsOutOfStock(m1.currentCount)
        outOfStockAlert == MkAlert(NewAlertId(a2), m1, box, "out_of_stock",
                                   OutMessage(m1), t)
        a3 == IF out THEN Append(a2, outOfStockAlert) ELSE a2
        n3 == IF out THEN Append(n2, outOfStockAlert) ELSE n2
    IN [medicine |-> m1, alerts |-> a3, newAlerts |-> n3]
  ELSE acc

RECURSIVE DoseTokens(_, _, _, _)
DoseTokens(acc, box, scheduleTimes, t) ==
  IF scheduleTimes = <<>> THEN acc
  ELSE DoseTokens(DoseStep(acc, box, Head(scheduleTimes), t), box,
                  Tail(scheduleTimes), t)

(* box.medicines.forEach: returns the medicines of the box after the pass  *)
(* together with the working alerts and newAlerts.                         *)
RECURSIVE DoseMedicines(_, _, _, _, _)
DoseMedicines(box, i, meds, acc, t) ==
  IF i > Len(box.medicines) THEN [medicines |-> meds, alerts |-> acc.alerts,
                                  newAlerts |-> acc.newAlerts]
  ELSE LET r == DoseTokens([medicine |-> box.medicines[i], alerts |-> acc.alerts,
                            newAlerts |-> acc.newAlerts],
                           box, box.medicines[i].scheduleTime, t)
       IN DoseMedicines(box, i + 1, Append(meds, r.medicine),
                        [alerts |-> r.alerts, newAlerts |-> r.newAlerts], t)

RECURSIVE DoseBoxes(_, _, _, _, _)
DoseBoxes(bs, i, done, acc, t) ==
  IF i > Len(bs) THEN [boxes |-> done, alerts |-> acc.alerts,
                       newAlerts |-> acc.newAlerts]
  ELSE LET r == DoseMedicines(bs[i], 1, <<>>, acc, t)
       IN DoseBoxes(bs, i + 1,
                    Append(done, [bs[i] EXCEPT !.medicines = r.medicines]),
                    [alerts |-> r.alerts, newAlerts |-> r.newAlerts], t)

(* The medicines of all boxes, and the stored count of a medicine id       *)
Medicines(bs) == UNION {Range(bs[i].medicines) : i \in DOMAIN bs}

CountOf(bs, id) ==
  IF \E m \in Medicines(bs) : m.id = id
  THEN (CHOOSE m \in Medicines(bs) : m.id = id).currentCount
  ELSE 0

TimeAlertsFor(list, id) ==
  {i \in DOMAIN list : list[i].type = "medicine_time" /\ list[i].medicineId = id}

(* Variant: the low_count alert is pushed to alerts but not to newAlerts.   *)
checkMedicineTimesLowNotReturned(bs, as, t) ==
  LET r == DoseBoxes(bs, 1, <<>>, [alerts |-> as, newAlerts |-> <<>>], t)
  IN [r EXCEPT !.newAlerts =
        Filter(@, {a \in Range(@) : a.type # "low_count"})]

checkMedicineTimesResult(bs, as, t) ==
  DoseBoxes(bs, 1, <<>>, [alerts |-> as, newAlerts |-> <<>>], t)

checkMedicineTimes ==
  LET r == checkMedicineTimesResult(boxes, alerts, now)
  IN /\ Len(r.alerts) <= MaxAlerts
     /\ boxes' = r.boxes
     /\ alerts' = r.alerts
     /\ ret' = Returned(r.newAlerts)
     /\ saved' = {MEDICINE_BOXES, ALERTS}
     /\ op' = [name |-> "checkMedicineTimes", arg |-> <<>>,
               rep |-> op.name = "checkMedicineTimes"]
     /\ pre' = Stored
     /\ minute' = [id \in DOMAIN minute |->
                     [dosed |-> Min(MaxLog, minute[id].dosed
                                  + CountOf(boxes, id) - CountOf(r.boxes, id)),
                      timed |-> Min(MaxLog, minute[id].timed
                                  + Cardinality(TimeAlertsFor(r.newAlerts, id)))]]
     /\ UNCHANGED <<now, nextBoxId, nextMedId>>
     /\ UNCHANGED <<localStorage, inflight>>

(* ---------------------------- checkLowMedicines ------------------------ *)
(* daysRemaining = currentCount / timesPerDay;                             *)
(* daysRemaining <= 3 && daysRemaining > 0, with timesPerDay >= 1          *)
IsLowSupply(medicine) ==
  /\ medicine.currentCount <= LowThreshold * medicine.timesPerDay
  /\ medicine.currentCount > 0

(* Variant: only unread alerts count, as in the dose tick.                 *)
ExistingUnreadAlert(as, medicine) ==
  \E i \in DOMAIN as :
    /\ as[i].medicineId = medicine.id
    /\ as[i].type = "low_count"
    /\ ~as[i].isRead

ExistingAlert(as, medicine) ==
  \E i \in DOMAIN as :
    /\ as[i].medicineId = medicine.id
    /\ as[i].type = "low_count"

LowStep(acc, box, medicine, t) ==
  LET low == IsLowSupply(medicine)
      existingAlert == ExistingAlert(acc.alerts, medicine)
      newAlert == MkAlert(NewAlertId(acc.alerts), medicine, box, "low_count",
                          LowMessage(medicine), t)
  IN IF low /\ ~existingAlert
     THEN [alerts |-> Append(acc.alerts, newAlert),
           newAlerts |-> Append(acc.newAlerts, newAlert)]
     ELSE acc

RECURSIVE LowMedicines(_, _, _, _)
LowMedicines(box, i, acc, t) ==
  IF i > Len(box.medicines) THEN acc
  ELSE LowMedicines(box, i + 1, LowStep(acc, box, box.medicines[i], t), t)

RECURSIVE LowBoxes(_, _, _, _)
LowBoxes(bs, i, acc, t) ==
  IF i > Len(bs) THEN acc
  ELSE LowBoxes(bs, i + 1, LowMedicines(bs[i], 1, acc, t), t)

checkLowMedicinesResult(bs, as, t) ==
  LowBoxes(bs, 1, [alerts |-> as, newAlerts |-> <<>>], t)

checkLowMedicines ==
  LET r == checkLowMedicinesResult(boxes, alerts, now)
  IN /\ Len(r.alerts) <= MaxAlerts
     /\ alerts' = r.alerts
     /\ ret' = Returned(r.newAlerts)
     /\ saved' = {ALERTS}
     /\ op' = [name |-> "checkLowMedicines", arg |-> <<>>,
               rep |-> FALSE]
     /\ pre' = Stored
     /\ UNCHANGED <<boxes, now, nextBoxId, nextMedId, minute>>
     /\ UNCHANGED <<localStorage, inflight>>

(* ------------------------------- alerts -------------------------------- *)
(* Variant: >= in place of >.                                              *)
IsRecentInclusive(alert, t) == alert.createdAt >= t - RetentionDays * DayLen

(* alert.createdAt > now - 24 * 60 * 60 * 1000                             *)
IsRecent(alert, t) == alert.createdAt > t - RetentionDays * DayLen

recentAlertsOf(as, t) == Filter(as, {a \in Range(as) : IsRecent(a, t)})

getAlerts ==
  LET recentAlerts == recentAlertsOf(alerts, now)
  IN /\ alerts' = IF Len(recentAlerts) # Len(alerts) THEN recentAlerts ELSE alerts
     /\ saved' = IF Len(recentAlerts) # Len(alerts) THEN {ALERTS} ELSE {}
     /\ ret' = Returned(recentAlerts)
     /\ op' = [name |-> "getAlerts", arg |-> <<>>,
               rep |-> FALSE]
     /\ pre' = Stored
     /\ UNCHANGED <<boxes, now, nextBoxId, nextMedId, minute>>
     /\ UNCHANGED <<localStorage, inflight>>

(* alert.isRead = true on the first alert with the id, then the array       *)
(* without its read alerts is what gets saved.                             *)
markAlertAsReadResult(as, alertId) ==
  LET k == findIndex(as, alertId)
      marked == [as EXCEPT ![k].isRead = TRUE]
  IN Filter(marked, {a \in Range(marked) : ~a.isRead})

markAlertAsRead(alertId) ==
  /\ IF findIndex(alerts, alertId) # 0
     THEN /\ alerts' = markAlertAsReadResult(alerts, alertId)
          /\ saved' = {ALERTS}
     ELSE /\ alerts' = alerts
          /\ saved' = {}
  /\ ret' = Void
  /\ op' = [name |-> "markAlertAsRead", arg |-> <<>>,
            rep |-> FALSE]
  /\ pre' = Stored
  /\ UNCHANGED <<boxes, now, nextBoxId, nextMedId, minute>>
  /\ UNCHANGED <<localStorage, inflight>>

(* Variant: alert.isRead = !alert.isRead                                   *)
markAllAlertsToggled ==
  /\ alerts' = [i \in DOMAIN alerts |-> [alerts[i] EXCEPT !.isRead = ~@]]
  /\ saved' = {ALERTS}
  /\ ret' = Void
  /\ op' = [name |-> "markAllAlertsAsRead", arg |-> <<>>,
            rep |-> FALSE]
  /\ pre' = Stored
  /\ UNCHANGED <<boxes, now, nextBoxId, nextMedId, minute>>
  /\ UNCHANGED <<localStorage, inflight>>

markAllAlertsAsRead ==
  /\ alerts' = [i \in DOMAIN alerts |-> [alerts[i] EXCEPT !.isRead = TRUE]]
  /\ saved' = {ALERTS}
  /\ ret' = Void
  /\ op' = [name |-> "markAllAlertsAsRead", arg |-> <<>>,
            rep |-> FALSE]
  /\ pre' = Stored
  /\ UNCHANGED <<boxes, now, nextBoxId, nextMedId, minute>>
  /\ UNCHANGED <<localStorage, inflight>>

deleteAlert(alertId) ==
  /\ alerts' = Filter(alerts, {a \in Range(alerts) : a.id # alertId})
  /\ saved' = {ALERTS}
  /\ ret' = Void
  /\ op' = [name |-> "deleteAlert", arg |-> <<>>,
            rep |-> FALSE]
  /\ pre' = Stored
  /\ UNCHANGED <<boxes, now, nextBoxId, nextMedId, minute>>
  /\ UNCHANGED <<localStorage, inflight>>

(* ------------------------------- inputs -------------------------------- *)
BoxNames == {"Kitchen", "Travel"}
MedNames == {"Aspirin"}
CountInputs == {0, 1, LowThreshold + 1, MaxCount}
Schedules == {<<0>>, <<0, DayLen - 1>>, <<0, 0>>}
Texts == {NoText, {DayLen - 1}}

(* Omit<Medicine, 'id' | 'createdAt' | 'updatedAt'> as the form submits it *)
(* with one time field per dose a day (handleTimesPerDayChange).  A text   *)
(* that spells a time is entered only where that time is a later dose.     *)
MedicineInputs ==
  {m \in [name : MedNames, timesPerDay : 1..MaxTimesPerDay, totalCount : {MaxCount},
          currentCount : CountInputs, customMessage : Texts,
          scheduleTime : Schedules] :
     /\ m.timesPerDay = Len(m.scheduleTime)
     /\ m.customMessage # NoText => m.scheduleTime = <<0, DayLen - 1>>}

(* The medicines a box is stocked with *)
SeedInputs ==
  {m \in MedicineInputs :
     m.currentCount \in {0, MaxCount} => m.scheduleTime = <<0>>}

(* The forms submitted while the model runs *)
FormInputs ==
  {m \in MedicineInputs :
     \/ m.currentCount = 1 /\ m.customMessage # NoText
     \/ m.currentCount = LowThreshold + 1 /\ m.scheduleTime = <<0, 0>>}

BoxIds == 1..MaxBoxes
MedIds == 1..MaxMeds
StoredAlertIds == {a.id : a \in Range(alerts)}
AlertIds == StoredAlertIds \cup {NewAlertId(alerts)}

(* ------------------------------- boxes --------------------------------- *)
createMedicineBox(boxData) ==
  /\ nextBoxId <= MaxBoxes
  /\ LET newBox == Spread(boxData, [id |-> nextBoxId, createdAt |-> now,
                                    updatedAt |-> now])
     IN boxes' = Append(boxes, newBox)
  /\ nextBoxId' = nextBoxId + 1
  /\ saved' = {MEDICINE_BOXES}
  /\ ret' = Void
  /\ op' = [name |-> "createMedicineBox", arg |-> <<nextBoxId>>, rep |-> FALSE]
  /\ pre' = Stored
  /\ UNCHANGED <<alerts, now, nextMedId, minute>>
  /\ UNCHANGED <<localStorage, inflight>>

updateMedicineBox(id, updates) ==
  LET index == findIndex(boxes, id)
  IN /\ IF index = 0
        THEN /\ ret' = Thrown("Medicine box not found")
             /\ saved' = {}
             /\ boxes' = boxes
        ELSE /\ boxes' = [boxes EXCEPT ![index] =
                            Spread(Spread(boxes[index], updates),
                                   [updatedAt |-> now])]
             /\ saved' = {MEDICINE_BOXES}
             /\ ret' = Void
     /\ op' = [name |-> "updateMedicineBox", arg |-> <<id>>,
               rep |-> FALSE]
     /\ pre' = Stored
     /\ UNCHANGED <<alerts, now, nextBoxId, nextMedId, minute>>
     /\ UNCHANGED <<localStorage, inflight>>

(* Variant: the earlier deleteMedicineBox, which left the alerts alone.     *)
alertsOfOtherBoxesUnfiltered(as, boxToDelete) == as

(* alerts.filter(alert => !belongsToDeletedBox)                            *)
alertsOfOtherBoxes(as, boxToDelete) ==
  LET belongsToDeletedBox(alert) ==
        \/ alert.boxName = boxToDelete.name
        \/ \E k \in DOMAIN boxToDelete.medicines :
             boxToDelete.medicines[k].id = alert.medicineId
  IN Filter(as, {a \in Range(as) : ~belongsToDeletedBox(a)})

deleteMedicineBox(id) ==
  LET index == findIndex(boxes, id)
  IN /\ IF index = 0
        THEN /\ UNCHANGED <<boxes, alerts>>
             /\ saved' = {}
        ELSE /\ boxes' = Filter(boxes, {b \in Range(boxes) : b.id # id})
             /\ alerts' = alertsOfOtherBoxes(alerts, boxes[index])
             /\ saved' = {MEDICINE_BOXES, ALERTS}
     /\ ret' = Void
     /\ op' = [name |-> "deleteMedicineBox", arg |-> <<id>>,
               rep |-> FALSE]
     /\ pre' = Stored
     /\ UNCHANGED <<now, nextBoxId, nextMedId, minute>>
     /\ UNCHANGED <<localStorage, inflight>>

(* ------------------------------ medicines ------------------------------ *)
addMedicine(boxId, medicineData) ==
  LET newMedicine == Spread(medicineData, [id |-> nextMedId, createdAt |-> now,
                                           updatedAt |-> now])
      boxIndex == findIndex(boxes, boxId)
  IN /\ nextMedId <= MaxMeds
     /\ Len(alerts) < MaxAlerts
     /\ nextMedId' = nextMedId + 1
     /\ IF boxIndex = 0
        THEN /\ ret' = Thrown("Medicine box not found")
             /\ saved' = {}
             /\ UNCHANGED <<boxes, alerts>>
        ELSE LET box == boxes[boxIndex]
                 low == IsLowCount(newMedicine.currentCount)
                 lowCountAlert == MkAlert(NewAlertId(alerts), newMedicine, box,
                                          "low_count", LowMessage(newMedicine), now)
             IN /\ boxes' = [boxes EXCEPT ![boxIndex] =
                               [box EXCEPT !.medicines = Append(@, newMedicine),
                                           !.updatedAt = now]]
                /\ alerts' = IF low /\ ~ExistingLowAlert(alerts, newMedicine)
                             THEN Append(alerts, lowCountAlert)
                             ELSE alerts
                /\ saved' = {MEDICINE_BOXES, ALERTS}
                /\ ret' = Void
     /\ op' = [name |-> "addMedicine", arg |-> <<boxId, nextMedId>>, rep |-> FALSE]
     /\ pre' = Stored
     /\ UNCHANGED <<now, nextBoxId, minute>>
     /\ UNCHANGED <<localStorage, inflight>>

updateMedicine(boxId, medicineId, updates) ==
  LET boxIndex == findIndex(boxes, boxId)
      medicineIndex == IF boxIndex = 0 THEN 0
                       ELSE findIndex(boxes[boxIndex].medicines, medicineId)
  IN /\ IF boxIndex = 0
        THEN /\ ret' = Thrown("Medicine box not found")
             /\ saved' = {}
             /\ boxes' = boxes
        ELSE IF medicineIndex = 0
        THEN /\ ret' = Thrown("Medicine not found")
             /\ saved' = {}
             /\ boxes' = boxes
        ELSE /\ boxes' = [boxes EXCEPT ![boxIndex] =
                            [@ EXCEPT !.medicines[medicineIndex] =
                                         Spread(Spread(@, updates),
                                                [updatedAt |-> now]),
                                      !.updatedAt = now]]
             /\ saved' = {MEDICINE_BOXES}
             /\ ret' = Void
     /\ op' = [name |-> "updateMedicine", arg |-> <<boxId, medicineId>>,
               rep |-> FALSE]
     /\ pre' = Stored
     /\ UNCHANGED <<alerts, now, nextBoxId, nextMedId, minute>>
     /\ UNCHANGED <<localStorage, inflight>>

(* Variant: the alerts are saved as they were read.                        *)
alertsOfOtherMedicinesUnfiltered(as, medicineId) == as

(* alerts.filter(alert => alert.medicineId !== medicineId)                 *)
alertsOfOtherMedicines(as, medicineId) ==
  Filter(as, {a \in Range(as) : a.medicineId # medicineId})

deleteMedicine(boxId, medicineId) ==
  LET boxIndex == findIndex(boxes, boxId)
  IN /\ IF boxIndex = 0
        THEN /\ ret' = Thrown("Medicine box not found")
             /\ saved' = {}
             /\ UNCHANGED <<boxes, alerts>>
        ELSE /\ boxes' = [boxes EXCEPT ![boxIndex] =
                            [@ EXCEPT !.medicines =
                                        Filter(@, {m \in Range(@) : m.id # medicineId}),
                                      !.updatedAt = now]]
             /\ alerts' = alertsOfOtherMedicines(alerts, medicineId)
             /\ saved' = {MEDICINE_BOXES, ALERTS}
             /\ ret' = Void
     /\ op' = [name |-> "deleteMedicine", arg |-> <<boxId, medicineId>>,
               rep |-> FALSE]
     /\ pre' = Stored
     /\ UNCHANGED <<now, nextBoxId, nextMedId, minute>>
     /\ UNCHANGED <<localStorage, inflight>>

(* ------------------------------- clock --------------------------------- *)
MedIdSpace == 1..(MaxMeds + 1)
NewMinute == [id \in MedIdSpace |-> [dosed |-> 0, timed |-> 0]]

(* The wall clock moves on by one minute between two operations.           *)
Advance ==
  /\ now < MaxNow
  /\ now' = now + 1
  /\ op' = [name |-> "clock", arg |-> <<>>, rep |-> FALSE]
  /\ pre' = Stored
  /\ ret' = Void
  /\ saved' = {}
  /\ minute' = NewMinute
  /\ UNCHANGED <<boxes, alerts, nextBoxId, nextMedId>>
  /\ UNCHANGED <<localStorage, inflight>>

(* --------------------------- specification ----------------------------- *)
(* Spec: every operation of the data service, interleaved within one clock *)
(* minute, from empty storage.  SpecDose (below): the alert engine and the *)
(* alert operations on a stocked box while the clock moves over days.      *)
(* Storage as a first run finds it: initializeStorage() is not called, so  *)
(* both collections read as their defaults, [].                            *)
Init ==
  /\ boxes = <<>>
  /\ alerts = <<>>
  /\ now = 0
  /\ nextBoxId = 1
  /\ nextMedId = 1
  /\ op = [name |-> "init", arg |-> <<>>, rep |-> FALSE]
  /\ ret = Void
  /\ saved = {}
  /\ pre = Stored
  /\ minute = NewMinute
  /\ localStorage = NoItems
  /\ inflight = NoRequest

NewBoxData(name) ==
  [name |-> name, boxId |-> "ESP32_001", medicines |-> <<>>,
   isConnected |-> TRUE, lastSyncAt |-> Undefined]

BoxUpdates == {[isConnected |-> TRUE, lastSyncAt |-> now]}

Next ==
  \/ checkMedicineTimes
  \/ checkLowMedicines
  \/ getAlerts
  \/ \E alertId \in AlertIds : markAlertAsRead(alertId)
  \/ markAllAlertsAsRead
  \/ \E alertId \in AlertIds : deleteAlert(alertId)
  \/ \E name \in BoxNames : createMedicineBox(NewBoxData(name))
  \/ \E id \in BoxIds, updates \in BoxUpdates : updateMedicineBox(id, updates)
  \/ \E id \in BoxIds : deleteMedicineBox(id)
  \/ \E boxId \in BoxIds, medicineData \in FormInputs :
       addMedicine(boxId, medicineData)
  \/ \E boxId \in BoxIds, medicineId \in MedIds, updates \in FormInputs :
       updateMedicine(boxId, medicineId, updates)
  \/ \E boxId \in BoxIds, medicineId \in MedIds : deleteMedicine(boxId, medicineId)

Spec == Init /\ [][Next]_vars

(* ------------------ the alert engine on a stocked box ------------------ *)
(* Storage after a box was created and stocked at minute 0 and the alerts  *)
(* of that were dismissed: one box, its medicines as the form saved them,  *)
(* no alert.                                                               *)
Stocked(medicineData, id) ==
  Spread(medicineData, [id |-> id, createdAt |-> 0, updatedAt |-> 0])

Bystander ==
  [name |-> "Zinc", timesPerDay |-> 1, totalCount |-> MaxCount,
   currentCount |-> 1, customMessage |-> NoText,
   scheduleTime |-> <<DayLen - 1>>]

(* A medicine with stock above the low threshold and one dose a day       *)
DueMedicine ==
  [name |-> "Aspirin", timesPerDay |-> 1, totalCount |-> MaxCount,
   currentCount |-> LowThreshold + 1, customMessage |-> NoText,
   scheduleTime |-> <<0>>]

InitDose ==
  /\ \E medicineData \in SeedInputs, others \in {<<>>, <<Stocked(Bystander, 2)>>} :
       /\ others # <<>> => /\ medicineData.currentCount = LowThreshold + 1
                           /\ medicineData.scheduleTime = <<0>>
       /\ boxes = <<Spread(NewBoxData("Kitchen"),
                           [id |-> 1, createdAt |-> 0, updatedAt |-> 0,
                            medicines |-> <<Stocked(medicineData, 1)>> \o others])>>
  /\ alerts = <<>>
  /\ now = 0
  /\ nextBoxId = 2
  /\ nextMedId = 3
  /\ op = [name |-> "init", arg |-> <<>>, rep |-> FALSE]
  /\ ret = Void
  /\ saved = {}
  /\ pre = Stored
  /\ minute = NewMinute
  /\ localStorage = NoItems
  /\ inflight = NoRequest

NextDose ==
  \/ checkMedicineTimes
  \/ checkLowMedicines
  \/ getAlerts
  \/ \E alertId \in StoredAlertIds : markAlertAsRead(alertId)
  \/ markAllAlertsAsRead
  \/ Advance

SpecDose == InitDose /\ [][NextDose]_vars

(* ---------------------------- device client --------------------------- *)
(* services/esp32Service.ts.  A statement or expression of a try block     *)
(* completes normally with a value or abruptly with an exception.          *)
Return(value) == [threw |-> FALSE, value |-> value]
Throw(error) == [threw |-> TRUE, error |-> error]

(* How one HTTP exchange with the device can end: fetch() rejects (no      *)
(* route to the device, or AbortSignal.timeout fired) or resolves with a   *)
(* response of some status and body.  The bodies: text that is not JSON,   *)
(* the JSON null, an object without fields, and the two objects the        *)
(* firmware answers a sync with.                                           *)
Statuses == {200, 400, 404}
Bodies == {"unparsable", "null", "empty", "success", "error"}
Exchanges ==
  {[kind |-> "unreachable"], [kind |-> "timeout"]}
    \cup {[kind |-> "response", status |-> st, body |-> b] :
            st \in Statuses, b \in Bodies}

fetch(exchange) ==
  IF exchange.kind = "response" THEN Return(exchange)
  ELSE Throw(IF exchange.kind = "timeout" THEN "TimeoutError" ELSE "TypeError")

(* response.ok *)
ok(response) == response.status \in 200..299

Null == [null |-> TRUE]

(* response.json(); a field the object lacks reads as "" (undefined)       *)
json(response) ==
  CASE response.body = "unparsable" -> Throw("SyntaxError")
    [] response.body = "null" -> Return(Null)
    [] response.body = "empty" ->
         Return([boxId |-> "", status |-> "", message |-> ""])
    [] response.body = "success" ->
         Return([boxId |-> "ESP32_001", status |-> "success",
                 message |-> "Schedule updated"])
    [] response.body = "error" ->
         Return([boxId |-> "ESP32_001", status |-> "error",
                 message |-> "Invalid JSON"])

(* data.field: a TypeError on null                                         *)
Property(data, field) ==
  IF data = Null THEN Throw("TypeError") ELSE Return(data[field])

(* a || b on strings *)
OrElse(a, b) == IF a = "" THEN b ELSE a

(* The try block of testConnection *)
testConnectionTry(exchange) ==
  LET response == fetch(exchange)
  IN IF response.threw THEN response
     ELSE IF ok(response.value)
     THEN LET data == json(response.value)
          IN IF data.threw THEN data
             ELSE LET boxId == Property(data.value, "boxId")
                  IN IF boxId.threw THEN boxId
                     ELSE Return([success |-> TRUE,
                                  message |-> <<"Connected to ESP32",
                                                OrElse(boxId.value, "Unknown ID")>>])
     ELSE Return([success |-> FALSE,
                  message |-> <<"HTTP", response.value.status>>])

(* Variant: no catch clause.                                               *)
testConnectionUncaught(exchange) == testConnectionTry(exchange)

testConnection(exchange) ==
  LET try == testConnectionTry(exchange)
  IN IF try.threw
     THEN Return([success |-> FALSE,
                  message |-> <<"Connection failed: Device unreachable">>])
     ELSE try

(* The try block of syncMedicines; building syncData from a stored box     *)
(* does not throw.                                                         *)
syncMedicinesTry(exchange) ==
  LET response == fetch(exchange)
  IN IF response.threw THEN response
     ELSE IF ok(response.value)
     THEN LET result == json(response.value)
          IN IF result.threw THEN result
             ELSE LET status == Property(result.value, "status")
                      message == Property(result.value, "message")
                  IN IF status.threw THEN status
                     ELSE Return([success |-> status.value = "success",
                                  message |-> <<OrElse(message.value,
                                                  "Sync completed successfully")>>])
     ELSE Return([success |-> FALSE,
                  message |-> <<"Sync failed: HTTP", response.value.status>>])

syncMedicines(exchange) ==
  LET try == syncMedicinesTry(exchange)
  IN IF try.threw
     THEN Return([success |-> FALSE,
                  message |-> <<"Sync failed: Unable to reach device">>])
     ELSE try

getStatusTry(exchange) ==
  LET response == fetch(exchange)
  IN IF response.threw THEN response
     ELSE IF ok(response.value)
     THEN LET data == json(response.value)
          IN IF data.threw THEN data
             ELSE Return([success |-> TRUE, data |-> data.value,
                          message |-> <<"Status retrieved successfully">>])
     ELSE Return([success |-> FALSE,
                  message |-> <<"Failed to get status: HTTP",
                                response.value.status>>])

getStatus(exchange) ==
  LET try == getStatusTry(exchange)
  IN IF try.threw
     THEN Return([success |-> FALSE,
                  message |-> <<"Status check failed: Device unreachable">>])
     ELSE try

disconnectTry(exchange) ==
  LET response == fetch(exchange)
  IN IF response.threw THEN response
     ELSE Return([success |-> ok(response.value),
                  message |-> IF ok(response.value)
                              THEN <<"Disconnected successfully">>
                              ELSE <<"Disconnect signal failed">>])

disconnect(exchange) ==
  LET try == disconnectTry(exchange)
  IN IF try.threw
     THEN Return([success |-> TRUE,
                  message |-> <<"Disconnected (device unreachable)">>])
     ELSE try

(* What the caller of a device operation gets: its value, or its exception *)
Completed(completion) ==
  IF completion.threw THEN Thrown(completion.error)
  ELSE [error |-> "", alerts |-> <<>>, value |-> completion.value]

(* A call of a device operation from a view, as handleConnectBox,          *)
(* handleDisconnectBox and handleSyncBox make them.                        *)
DeviceCall(name, exchange, completion) ==
  /\ ret' = Completed(completion)
  /\ op' = [name |-> name, arg |-> <<exchange>>, rep |-> FALSE]
  /\ saved' = {}
  /\ pre' = Stored
  /\ UNCHANGED <<boxes, alerts, now, nextBoxId, nextMedId, minute>>
  /\ UNCHANGED <<localStorage, inflight>>

(* ------------------- data service: device handlers -------------------- *)
(* syncWithESP32 and attemptESP32Connection read the boxes, wait for the   *)
(* device and then write the boxes they read.  The part before the await   *)
(* is one step, the part after it another; inflight holds, per waiting     *)
(* handler, its name, its argument and the boxes it read.                  *)
DeviceIds == {"ESP32_001", "ESP32_002"}

(* boxes.find(b => b.boxId === boxId); 0 stands for undefined              *)
findByBoxId(bs, boxId) ==
  IF \E i \in DOMAIN bs : bs[i].boxId = boxId
  THEN CHOOSE i \in DOMAIN bs :
         bs[i].boxId = boxId /\ \A j \in 1..(i - 1) : bs[j].boxId # boxId
  ELSE 0

(* Up to the await: lines 410-416 and 545-549 *)
DeviceRequest(name, boxId) ==
  /\ Len(inflight) < MaxInflight
  /\ IF findByBoxId(boxes, boxId) = 0
     THEN /\ ret' = Thrown("Medicine box not found")
          /\ inflight' = inflight
     ELSE /\ ret' = Void
          /\ inflight' = Append(inflight,
               [name |-> name, boxId |-> boxId,
                id |-> boxes[findByBoxId(boxes, boxId)].id, boxes |-> boxes])
  /\ op' = [name |-> name, arg |-> <<boxId>>, rep |-> FALSE]
  /\ saved' = {}
  /\ pre' = Stored
  /\ UNCHANGED <<boxes, alerts, now, nextBoxId, nextMedId, minute, localStorage>>

syncWithESP32(boxId) == DeviceRequest("syncWithESP32", boxId)

attemptESP32Connection(boxId) == DeviceRequest("attemptESP32Connection", boxId)

Without(s, k) == [i \in 1..(Len(s) - 1) |-> IF i < k THEN s[i] ELSE s[i + 1]]

(* syncWithESP32 from the answer of esp32Service.syncMedicines on          *)
syncWithESP32Done(k, exchange) ==
  LET request == inflight[k]
      index == findByBoxId(request.boxes, request.boxId)
      result == syncMedicines(exchange)
  IN /\ request.name = "syncWithESP32"
     /\ IF result.threw
        THEN /\ boxes' = [request.boxes EXCEPT ![index].isConnected = FALSE]
             /\ saved' = {MEDICINE_BOXES}
             /\ ret' = Thrown("Failed to sync with ESP32")
        ELSE IF result.value.success
        THEN /\ boxes' = [request.boxes EXCEPT ![index].isConnected = TRUE,
                                               ![index].lastSyncAt = now]
             /\ saved' = {MEDICINE_BOXES}
             /\ ret' = [error |-> "", alerts |-> <<>>,
                        value |-> [boxId |-> request.boxId, status |-> "success",
                                   message |-> result.value.message,
                                   syncedAt |-> now]]
        ELSE /\ boxes' = boxes
             /\ saved' = {}
             /\ ret' = [error |-> "", alerts |-> <<>>,
                        value |-> [boxId |-> request.boxId, status |-> "failed",
                                   message |-> result.value.message,
                                   syncedAt |-> now]]
     /\ inflight' = Without(inflight, k)
     /\ op' = [name |-> "syncWithESP32Done", arg |-> <<request.boxId, exchange>>,
               rep |-> FALSE]
     /\ pre' = Stored
     /\ UNCHANGED <<alerts, now, nextBoxId, nextMedId, minute, localStorage>>

(* attemptESP32Connection from the answer of esp32Service.testConnection   *)
(* on; it has no try block of its own.                                     *)
attemptESP32ConnectionDone(k, exchange) ==
  LET request == inflight[k]
      index == findByBoxId(request.boxes, request.boxId)
      result == testConnection(exchange)
  IN /\ request.name = "attemptESP32Connection"
     /\ IF result.threw
        THEN /\ boxes' = boxes
             /\ saved' = {}
             /\ ret' = Thrown(result.error)
        ELSE /\ boxes' = [request.boxes EXCEPT
                            ![index] = Spread(@,
                               [isConnected |-> result.value.success,
                                updatedAt |-> now,
                                lastSyncAt |-> IF result.value.success THEN now
                                               ELSE @.lastSyncAt])]
             /\ saved' = {MEDICINE_BOXES}
             /\ ret' = Completed(result)
     /\ inflight' = Without(inflight, k)
     /\ op' = [name |-> "attemptESP32ConnectionDone",
               arg |-> <<request.boxId, exchange>>, rep |-> FALSE]
     /\ pre' = Stored
     /\ UNCHANGED <<alerts, now, nextBoxId, nextMedId, minute, localStorage>>

(* ----------------- Dashboard: connect, disconnect, sync ---------------- *)
(* handleConnectBox, handleDisconnectBox and handleSyncBox get the box the *)
(* view rendered, wait for the device and then pass a copy of that box to  *)
(* dataService.updateMedicineBox.  The view shows the boxes as loadData    *)
(* read them; the click is one step, the part after the await another.     *)
(* The connectingBoxes / syncingBoxes guards allow one request per box.    *)
handleBox(name, id) ==
  /\ Len(inflight) < MaxInflight
  /\ findIndex(boxes, id) # 0
  /\ inflight' = Append(inflight,
        [name |-> name, boxId |-> boxes[findIndex(boxes, id)].boxId,
         id |-> id, boxes |-> boxes])
  /\ ret' = Void
  /\ op' = [name |-> name, arg |-> <<id>>, rep |-> FALSE]
  /\ saved' = {}
  /\ pre' = Stored
  /\ UNCHANGED <<boxes, alerts, now, nextBoxId, nextMedId, minute, localStorage>>

handleConnectBox(id) == handleBox("handleConnectBox", id)

handleDisconnectBox(id) == handleBox("handleDisconnectBox", id)

handleSyncBox(id) == handleBox("handleSyncBox", id)

(* dataService.updateMedicineBox on the boxes bs at time t: the boxes it   *)
(* saves, or bs when it throws 'Medicine box not found'                    *)
updateMedicineBoxResult(bs, id, updates, t) ==
  LET index == findIndex(bs, id)
  IN IF index = 0 THEN bs
     ELSE [bs EXCEPT ![index] = Spread(Spread(bs[index], updates),
                                       [updatedAt |-> t])]

(* The handler from the answer of the device on: when the answer lets it   *)
(* go on, updateMedicineBox(box.id, { ...box, ...change }); its try block  *)
(* catches what the device call or updateMedicineBox throws.               *)
handleBoxDone(k, name, done, exchange, goesOn, change) ==
  LET request == inflight[k]
      box == request.boxes[findIndex(request.boxes, request.id)]
      updatedBox == Spread(box, change)
      written == goesOn /\ findIndex(boxes, request.id) # 0
  IN /\ request.name = name
     /\ boxes' = IF goesOn
                 THEN updateMedicineBoxResult(boxes, box.id, updatedBox, now)
                 ELSE boxes
     /\ saved' = IF written THEN {MEDICINE_BOXES} ELSE {}
     /\ ret' = Void
     /\ inflight' = Without(inflight, k)
     /\ op' = [name |-> done, arg |-> <<request.id, exchange>>,
               rep |-> FALSE]
     /\ pre' = Stored
     /\ UNCHANGED <<alerts, now, nextBoxId, nextMedId, minute, localStorage>>

handleConnectBoxDone(k, exchange) ==
  LET result == testConnection(exchange)
  IN handleBoxDone(k, "handleConnectBox", "handleConnectBoxDone", exchange,
                   ~result.threw /\ result.value.success,
                   [isConnected |-> TRUE])

handleDisconnectBoxDone(k, exchange) ==
  LET result == disconnect(exchange)
  IN handleBoxDone(k, "handleDisconnectBox", "handleDisconnectBoxDone",
                   exchange, ~result.threw, [isConnected |-> FALSE])

handleSyncBoxDone(k, exchange) ==
  LET result == syncMedicines(exchange)
  IN handleBoxDone(k, "handleSyncBox", "handleSyncBoxDone", exchange,
                   ~result.threw /\ result.value.success,
                   [lastSyncAt |-> now])

(* A box with one medicine (id 0) that is due now, on the day after it was *)
(* stocked; the device answers or fails in every way it can, and the form  *)
(* adds medicines to the box.                                              *)
InitDevice ==
  /\ \E isConnected \in BOOLEAN :
       boxes = <<Spread(NewBoxData("Kitchen"),
                        [id |-> 1, createdAt |-> 0, updatedAt |-> 0,
                         isConnected |-> isConnected,
                         medicines |-> <<Stocked(DueMedicine, 0)>>])>>
  /\ alerts = <<>>
  /\ now = DayLen
  /\ nextBoxId = 2
  /\ nextMedId = 1
  /\ op = [name |-> "init", arg |-> <<>>, rep |-> FALSE]
  /\ ret = Void
  /\ saved = {}
  /\ pre = Stored
  /\ minute = NewMinute
  /\ localStorage = NoItems
  /\ inflight = NoRequest

NextDevice ==
  \/ \E exchange \in Exchanges :
       DeviceCall("testConnection", exchange, testConnection(exchange))
  \/ \E exchange \in Exchanges :
       DeviceCall("syncMedicines", exchange, syncMedicines(exchange))
  \/ \E exchange \in Exchanges :
       DeviceCall("getStatus", exchange, getStatus(exchange))
  \/ \E exchange \in Exchanges :
       DeviceCall("disconnect", exchange, disconnect(exchange))
  \/ \E boxId \in DeviceIds : syncWithESP32(boxId)
  \/ \E boxId \in DeviceIds : attemptESP32Connection(boxId)
  \/ \E k \in DOMAIN inflight, exchange \in Exchanges : syncWithESP32Done(k, exchange)
  \/ \E k \in DOMAIN inflight, exchange \in Exchanges :
       attemptESP32ConnectionDone(k, exchange)
  \/ \E id \in BoxIds : handleConnectBox(id)
  \/ \E id \in BoxIds : handleDisconnectBox(id)
  \/ \E id \in BoxIds : handleSyncBox(id)
  \/ \E k \in DOMAIN inflight, exchange \in Exchanges :
       handleConnectBoxDone(k, exchange)
  \/ \E k \in DOMAIN inflight, exchange \in Exchanges :
       handleDisconnectBoxDone(k, exchange)
  \/ \E k \in DOMAIN inflight, exchange \in Exchanges :
       handleSyncBoxDone(k, exchange)
  \/ checkMedicineTimes
  \/ \E boxId \in BoxIds, medicineData \in FormInputs :
       addMedicine(boxId, medicineData)
  \/ \E boxId \in BoxIds, medicineId \in MedIds : deleteMedicine(boxId, medicineId)

SpecDevice == InitDevice /\ [][NextDevice]_vars

(* --------------------------- storage helpers --------------------------- *)
(* An item of localStorage is a text: one that spells a JSON value, or one *)
(* that JSON.parse rejects.  In JSON a Date is the string toISOString()    *)
(* gives, and a field whose value is undefined is left out.                *)
Corrupt == [kind |-> "corrupt"]
Text(value) == [kind |-> "json", value |-> value]

(* A JSON array, and [] *)
Array(items) == [array |-> items]
EmptyArray == Array(<<>>)

(* Date.prototype.toJSON *)
toISOString(t) == [iso |-> t]

(* Variant: the string is read as local time, one unit off.                *)
NewDateShifted(text) == text.iso + 1

(* new Date(string) *)
NewDate(text) == text.iso

(* JSON.stringify of a medicine, a box, a list of boxes *)
stringifyMedicine(medicine) ==
  [medicine EXCEPT !.createdAt = toISOString(@), !.updatedAt = toISOString(@)]

stringifyBox(box) ==
  [f \in {g \in DOMAIN box : g = "lastSyncAt" => box[g] # Undefined} |->
     CASE f \in {"createdAt", "updatedAt", "lastSyncAt"} -> toISOString(box[f])
       [] f = "medicines" ->
            [j \in DOMAIN box.medicines |-> stringifyMedicine(box.medicines[j])]
       [] OTHER -> box[f]]

stringify(bs) == Text(Array([i \in DOMAIN bs |-> stringifyBox(bs[i])]))

(* JSON.parse *)
parse(text) ==
  IF text.kind = "corrupt" THEN Throw("SyntaxError") ELSE Return(text.value)

(* The try block of getFromStorage *)
getFromStorageTry(items, key, defaultValue) ==
  IF key \notin DOMAIN items THEN Return(defaultValue) ELSE parse(items[key])

(* Variant: no catch clause.                                               *)
getFromStorageUncaught(items, key, defaultValue) ==
  getFromStorageTry(items, key, defaultValue)

getFromStorageResult(items, key, defaultValue) ==
  LET try == getFromStorageTry(items, key, defaultValue)
  IN IF try.threw THEN Return(defaultValue) ELSE try

getFromStorage(key, defaultValue) ==
  /\ ret' = Completed(getFromStorageResult(localStorage, key, defaultValue))
  /\ op' = [name |-> "getFromStorage", arg |-> <<key, defaultValue, localStorage>>,
            rep |-> FALSE]
  /\ saved' = {}
  /\ pre' = Stored
  /\ UNCHANGED <<boxes, alerts, now, nextBoxId, nextMedId, minute>>
  /\ UNCHANGED <<localStorage, inflight>>

(* saveToStorage(key, value): setItem may throw (storage full), which is   *)
(* logged and goes no further.                                             *)
saveToStorage(key, bs, full) ==
  /\ localStorage' = IF full THEN localStorage
                     ELSE (key :> stringify(bs)) @@ localStorage
  /\ ret' = Void
  /\ op' = [name |-> "saveToStorage", arg |-> <<key, full>>, rep |-> FALSE]
  /\ saved' = IF full THEN {} ELSE {key}
  /\ pre' = Stored
  /\ UNCHANGED <<boxes, alerts, now, nextBoxId, nextMedId, minute, inflight>>

(* .map(box => ({...box, createdAt: new Date(box.createdAt), ...}))        *)
reviveMedicine(medicine) ==
  [medicine EXCEPT !.createdAt = NewDate(@), !.updatedAt = NewDate(@)]

reviveBox(box) ==
  [f \in DOMAIN box \cup {"lastSyncAt"} |->
     CASE f \in {"createdAt", "updatedAt"} -> NewDate(box[f])
       [] f = "lastSyncAt" ->
            IF f \in DOMAIN box THEN NewDate(box[f]) ELSE Undefined
       [] f = "medicines" ->
            [j \in DOMAIN box.medicines |-> reviveMedicine(box.medicines[j])]
       [] OTHER -> box[f]]

(* getFromStorage(...).map(...): a TypeError when the item spells null     *)
getMedicineBoxesFromStorageResult(items) ==
  LET stored == getFromStorageResult(items, MEDICINE_BOXES, EmptyArray)
  IN IF stored.threw THEN stored
     ELSE IF stored.value = Null THEN Throw("TypeError")
     ELSE Return([i \in DOMAIN stored.value.array |->
                    reviveBox(stored.value.array[i])])

(* rep: the call reads what a saveToStorage of boxes has just written      *)
getMedicineBoxesFromStorage ==
  /\ ret' = Completed(getMedicineBoxesFromStorageResult(localStorage))
  /\ op' = [name |-> "getMedicineBoxesFromStorage", arg |-> <<>>,
            rep |-> op.name = "saveToStorage" /\ ~op.arg[2]]
  /\ saved' = {}
  /\ pre' = Stored
  /\ UNCHANGED <<boxes, alerts, now, nextBoxId, nextMedId, minute>>
  /\ UNCHANGED <<localStorage, inflight>>

(* Boxes as the data service holds them in memory: synced or never synced, *)
(* with or without a medicine.                                             *)
SampleBoxes(id) ==
  {Spread(NewBoxData(name),
          [id |-> id, createdAt |-> 0, updatedAt |-> updatedAt,
           lastSyncAt |-> lastSyncAt, medicines |-> medicines]) :
     name \in BoxNames, updatedAt \in {0, MaxNow},
     lastSyncAt \in {Undefined, 0, MaxNow},
     medicines \in {<<>>, <<Stocked(DueMedicine, 1)>>}}

BoxLists ==
  {<<>>} \cup {<<b>> : b \in SampleBoxes(1)}
         \cup {<<b, c>> : b \in SampleBoxes(1), c \in SampleBoxes(2)}

(* The boxes item before the program wrote it: absent, damaged, or null    *)
InitialItems ==
  {NoItems, MEDICINE_BOXES :> Corrupt, MEDICINE_BOXES :> Text(Null)}

InitStorage ==
  /\ boxes \in BoxLists
  /\ localStorage \in InitialItems
  /\ alerts = <<>>
  /\ now = MaxNow
  /\ nextBoxId = 3
  /\ nextMedId = 2
  /\ op = [name |-> "init", arg |-> <<>>, rep |-> FALSE]
  /\ ret = Void
  /\ saved = {}
  /\ pre = Stored
  /\ minute = NewMinute
  /\ inflight = NoRequest

NextStorage ==
  \/ \E key \in {MEDICINE_BOXES, ALERTS} : getFromStorage(key, EmptyArray)
  \/ \E full \in BOOLEAN : saveToStorage(MEDICINE_BOXES, boxes, full)
  \/ getMedicineBoxesFromStorage

SpecStorage == InitStorage /\ [][NextStorage]_vars

(* --------------------------- the medicine form ------------------------- *)
(* The form state after the effect that loads editingMedicine *)
FormData(editingMedicine) ==
  [name |-> editingMedicine.name, timesPerDay |-> editingMedicine.timesPerDay,
   totalCount |-> editingMedicine.totalCount,
   currentCount |-> editingMedicine.currentCount,
   customMessage |-> editingMedicine.customMessage,
   scheduleTime |-> editingMedicine.scheduleTime]

(* a || b on numbers *)
OrElseNumber(a, b) == IF a = 0 THEN b ELSE a

(* The medicineData that handleSubmit passes to onSave *)
handleSubmit(formData, scheduleTimes) ==
  Spread(formData,
         [scheduleTime |-> scheduleTimes,
          currentCount |-> OrElseNumber(formData.currentCount, formData.totalCount)])

(* What the user types into the name field before saving; the count fields *)
(* and the time fields are left as they were loaded.                       *)
NameEdits == {[name |-> name] : name \in MedNames \cup {"Ibuprofen"}}

(* AppContent.handleMedicineSaved for a medicine that the list of its box  *)
(* offered for editing: the form submits, dataService.updateMedicine saves *)
handleMedicineSaved(boxId, medicineId, edit) ==
  LET boxIndex == findIndex(boxes, boxId)
      medicineIndex == IF boxIndex = 0 THEN 0
                       ELSE findIndex(boxes[boxIndex].medicines, medicineId)
  IN /\ boxIndex # 0
     /\ medicineIndex # 0
     /\ LET editing == boxes[boxIndex].medicines[medicineIndex]
            formData == Spread(FormData(editing), edit)
            medicineData == handleSubmit(formData, editing.scheduleTime)
        IN boxes' = [boxes EXCEPT ![boxIndex] =
                       [@ EXCEPT !.medicines[medicineIndex] =
                                    Spread(Spread(@, medicineData),
                                           [updatedAt |-> now]),
                                 !.updatedAt = now]]
     /\ saved' = {MEDICINE_BOXES}
     /\ ret' = Void
     /\ op' = [name |-> "handleMedicineSaved", arg |-> <<boxId, medicineId>>,
               rep |-> FALSE]
     /\ pre' = Stored
     /\ UNCHANGED <<alerts, now, nextBoxId, nextMedId, minute>>
     /\ UNCHANGED <<localStorage, inflight>>

(* ------------------------ cascades over two boxes ---------------------- *)
(* Storage after two boxes were created, createMedicineBox accepting any   *)
(* name, and one medicine was added to each; the alerts of that were       *)
(* dismissed.  The engine raises alerts and the views edit medicines and   *)
(* delete medicines and boxes, a view passing the box id and the medicine  *)
(* id it has at hand.                                                      *)
SeededIds == {1, 2}

ShelfInputs ==
  {m \in SeedInputs : m.currentCount \in {1, LowThreshold + 1}
                      /\ m.scheduleTime = <<0>>}

InitCascade ==
  /\ \E first \in BoxNames, second \in BoxNames,
        one \in ShelfInputs, other \in ShelfInputs :
       boxes = <<Spread(NewBoxData(first),
                        [id |-> 1, createdAt |-> 0, updatedAt |-> 0,
                         medicines |-> <<Stocked(one, 1)>>]),
                 Spread(NewBoxData(second),
                        [id |-> 2, createdAt |-> 0, updatedAt |-> 0,
                         medicines |-> <<Stocked(other, 2)>>])>>
  /\ alerts = <<>>
  /\ now = 0
  /\ nextBoxId = 3
  /\ nextMedId = 3
  /\ op = [name |-> "init", arg |-> <<>>, rep |-> FALSE]
  /\ ret = Void
  /\ saved = {}
  /\ pre = Stored
  /\ minute = NewMinute
  /\ localStorage = NoItems
  /\ inflight = NoRequest

NextCascade ==
  \/ checkMedicineTimes
  \/ checkLowMedicines
  \/ markAllAlertsAsRead
  \/ \E id \in SeededIds : deleteMedicineBox(id)
  \/ \E boxId \in SeededIds, medicineId \in SeededIds :
       deleteMedicine(boxId, medicineId)
  \/ \E boxId \in SeededIds, medicineId \in SeededIds, edit \in NameEdits :
       handleMedicineSaved(boxId, medicineId, edit)

SpecCascade == InitCascade /\ [][NextCascade]_vars

(* =============================== claims ================================ *)
Slots(bs) == UNION {{<<i, j>> : j \in DOMAIN bs[i].medicines} : i \in DOMAIN bs}

TokensAt(medicine, t) ==
  {k \in DOMAIN medicine.scheduleTime : medicine.scheduleTime[k] = toTimeString(t)}

AlertsOf(list, id, type) ==
  {k \in DOMAIN list : list[k].medicineId = id /\ list[k].type = type}

Dosed == op.name = "checkMedicineTimes"

(* The slot held a medicine whose count this call lowered *)
Deducted(i, j) ==
  boxes[i].medicines[j].currentCount < pre.boxes[i].medicines[j].currentCount

(* C1: a dose tick lowers by exactly 1 the count of every medicine that    *)
(* has stock, has exactly one schedule token equal to the current minute   *)
(* and has no medicine_time alert yet for that token and date; and no dose *)
(* tick leaves a count below 0.                                            *)
C1_DoseDeductsExactlyOne ==
  Dosed =>
    /\ \A s \in Slots(pre.boxes) :
         LET m == pre.boxes[s[1]].medicines[s[2]]
         IN (/\ m.currentCount > 0
             /\ Cardinality(TokensAt(m, now)) = 1
             /\ ~\E a \in Range(pre.alerts) :
                   /\ a.medicineId = m.id
                   /\ a.type = "medicine_time"
                   /\ a.message.time = toTimeString(now)
                   /\ toDateString(a.createdAt) = toDateString(now))
            => boxes[s[1]].medicines[s[2]].currentCount = m.currentCount - 1
    /\ \A m \in Medicines(boxes) : m.currentCount >= 0

(* C2: a dose tick that directly follows a dose tick in the same minute    *)
(* creates no alert, returns the empty list and changes no count.          *)
C2_SecondTickIsIdle ==
  (Dosed /\ op.rep) =>
    /\ ret.alerts = <<>>
    /\ alerts = pre.alerts
    /\ boxes = pre.boxes

C2_Witness ==
  /\ Dosed /\ op.rep
  /\ \E a \in Range(alerts) : a.type = "medicine_time" /\ a.createdAt = now

(* C3: within one clock minute, whatever alert operations run between the  *)
(* dose ticks, a medicine is deducted at most once and at most one         *)
(* medicine_time alert is created for it.                                  *)
C3_OneDosePerMinute ==
  \A id \in DOMAIN minute : minute[id].dosed <= 1 /\ minute[id].timed <= 1

(* C4: storage never holds two medicine_time alerts for the same medicine  *)
(* id, schedule token and calendar date.                                   *)
C4_OneTimeAlertPerKey ==
  \A k, l \in DOMAIN alerts :
    (/\ alerts[k].type = "medicine_time"
     /\ alerts[l].type = "medicine_time"
     /\ alerts[k].medicineId = alerts[l].medicineId
     /\ alerts[k].message.time = alerts[l].message.time
     /\ toDateString(alerts[k].createdAt) = toDateString(alerts[l].createdAt))
    => k = l

C4_Witness ==
  \E a \in Range(alerts) :
    /\ a.type = "medicine_time"
    /\ minute[a.medicineId].timed = 2

(* C5: a deduction that leaves 1..3 emits exactly one low_count alert and  *)
(* no out_of_stock alert for the medicine, or no low_count alert when an   *)
(* unread one was already stored; a deduction that leaves more than 3      *)
(* emits neither.                                                          *)
C5_LowCountRule ==
  Dosed =>
    \A s \in Slots(pre.boxes) :
      Deducted(s[1], s[2]) =>
        LET m == boxes[s[1]].medicines[s[2]]
            lows == Cardinality(AlertsOf(ret.alerts, m.id, "low_count"))
            outs == Cardinality(AlertsOf(ret.alerts, m.id, "out_of_stock"))
            unread == \E a \in Range(pre.alerts) :
                        a.medicineId = m.id /\ a.type = "low_count" /\ ~a.isRead
        IN /\ m.currentCount \in 1..3 =>
                /\ lows = (IF unread THEN 0 ELSE 1)
                /\ outs = 0
           /\ m.currentCount > 3 => lows = 0 /\ outs = 0

C5_Witness ==
  /\ Dosed
  /\ \E s \in Slots(pre.boxes) :
       /\ pre.boxes[s[1]].medicines[s[2]].currentCount = 4
       /\ boxes[s[1]].medicines[s[2]].currentCount = 3
       /\ AlertsOf(ret.alerts, boxes[s[1]].medicines[s[2]].id, "low_count") # {}

(* C6: a deduction from 1 stores 0 and emits exactly one out_of_stock and  *)
(* one medicine_time alert and no low_count alert; an out_of_stock alert   *)
(* comes only from a deduction that reaches 0.                             *)
C6_OutOfStockRule ==
  /\ Dosed =>
       \A s \in Slots(pre.boxes) :
         LET m == boxes[s[1]].medicines[s[2]]
             count(type) == Cardinality(AlertsOf(ret.alerts, m.id, type))
         IN /\ (Deducted(s[1], s[2])
                  /\ pre.boxes[s[1]].medicines[s[2]].currentCount = 1) =>
                 /\ m.currentCount = 0
                 /\ count("out_of_stock") = 1
                 /\ count("medicine_time") = 1
                 /\ count("low_count") = 0
            /\ count("out_of_stock") > 0 =>
                 Deducted(s[1], s[2]) /\ m.currentCount = 0
  /\ \A a \in Range(alerts) :
       (a.type = "out_of_stock" /\ \A b \in Range(pre.alerts) : b.id # a.id) =>
         /\ Dosed
         /\ \E m \in Medicines(boxes) : m.id = a.medicineId

C6_Witness ==
  /\ Dosed
  /\ \E s \in Slots(pre.boxes) :
       /\ pre.boxes[s[1]].medicines[s[2]].currentCount = 1
       /\ boxes[s[1]].medicines[s[2]].currentCount = 0
       /\ AlertsOf(ret.alerts, boxes[s[1]].medicines[s[2]].id, "out_of_stock") # {}

(* C7: a dose tick leaves a medicine with no stock, or with no schedule    *)
(* token equal to the current minute, as it was (count and updatedAt) and  *)
(* creates no alert for it.                                                *)
C7_NotDueUntouched ==
  Dosed =>
    \A s \in Slots(pre.boxes) :
      LET m == pre.boxes[s[1]].medicines[s[2]]
      IN (m.currentCount = 0 \/ TokensAt(m, now) = {}) =>
           /\ boxes[s[1]].medicines[s[2]] = m
           /\ \A a \in Range(ret.alerts) : a.medicineId # m.id

C7_Witness ==
  /\ Dosed
  /\ ret.alerts # <<>>
  /\ \E m \in Medicines(pre.boxes) : m.currentCount = 0 \/ TokensAt(m, now) = {}

(* C8: after a dose tick the stored alerts are the alerts stored before    *)
(* followed by the returned ones, all unread, and the stored boxes are the *)
(* boxes stored before with one dose deducted from exactly the medicines   *)
(* a returned medicine_time alert names.                                   *)
C8_ReturnsWhatItCreated ==
  Dosed =>
    /\ alerts = pre.alerts \o ret.alerts
    /\ \A a \in Range(ret.alerts) : ~a.isRead /\ a.createdAt = now
    /\ DOMAIN boxes = DOMAIN pre.boxes
    /\ \A i \in DOMAIN boxes :
         boxes[i] =
           [pre.boxes[i] EXCEPT !.medicines =
              [j \in DOMAIN pre.boxes[i].medicines |->
                 LET m == pre.boxes[i].medicines[j]
                 IN IF AlertsOf(ret.alerts, m.id, "medicine_time") # {}
                    THEN [m EXCEPT !.currentCount = m.currentCount - 1,
                                   !.updatedAt = now]
                    ELSE m]]

C8_Witness ==
  /\ Dosed
  /\ Len(ret.alerts) >= 2
  /\ pre.alerts # <<>>

C10_RetentionSweep ==
  op.name = "getAlerts" =>
    LET young(a) == now - a.createdAt < DayLen
    IN /\ ret.alerts = SelectSeq(pre.alerts, young)
       /\ alerts = ret.alerts
       /\ (ALERTS \in saved) <=> (\E a \in Range(pre.alerts) : ~young(a))
       /\ MEDICINE_BOXES \notin saved

C10_Witness ==
  /\ op.name = "getAlerts"
  /\ ALERTS \in saved
  /\ ret.alerts # <<>>
  /\ \E a \in Range(pre.alerts) : now - a.createdAt > DayLen

Called(name) == op.name = name

Succeeded == ret.error = ""

(* C11: after deleteMedicine(boxId, medicineId) succeeds the box holds no  *)
(* medicine with that id and storage holds no alert with that medicineId.  *)
C11_MedicineDeleteCascades ==
  (Called("deleteMedicine") /\ Succeeded) =>
    /\ \A b \in Range(boxes) :
         b.id = op.arg[1] => \A m \in Range(b.medicines) : m.id # op.arg[2]
    /\ \A a \in Range(alerts) : a.medicineId # op.arg[2]

C11_Witness ==
  /\ Called("deleteMedicine") /\ Succeeded
  /\ \E m \in Medicines(pre.boxes) : m.id = op.arg[2]
  /\ \E a \in Range(pre.alerts) : a.medicineId = op.arg[2]

(* C12: after deleteMedicineBox(id) on a stored box, the box and its       *)
(* medicines are gone from storage and storage holds no alert whose        *)
(* medicineId is the id of a medicine that was in that box.                *)
C12_BoxDeleteCascades ==
  Called("deleteMedicineBox") =>
    \A b \in Range(pre.boxes) :
      b.id = op.arg[1] =>
        /\ \A c \in Range(boxes) : c.id # b.id
        /\ \A m \in Range(b.medicines) :
             /\ \A n \in Medicines(boxes) : n.id # m.id
             /\ \A a \in Range(alerts) : a.medicineId # m.id

C12_Witness ==
  /\ Called("deleteMedicineBox")
  /\ \E b \in Range(pre.boxes) :
       /\ b.id = op.arg[1]
       /\ \E m \in Range(b.medicines), a \in Range(pre.alerts) : a.medicineId = m.id

(* The alerts stored before the last call that are not stored after it;    *)
(* a call never removes an alert and creates one with its id.              *)
Removed == {b \in Range(pre.alerts) : \A a \in Range(alerts) : a.id # b.id}

(* C13: an alert leaves storage only by deleteAlert on it, by the          *)
(* retention sweep once it is 24 hours old, or by the cascade of           *)
(* deleteMedicine or deleteMedicineBox on its medicine or box.             *)
C13_AlertRemovalRoutes ==
  \A b \in Removed :
    \/ Called("deleteAlert") /\ Cardinality(Removed) = 1
    \/ Called("getAlerts") /\ now - b.createdAt >= RetentionDays * DayLen
    \/ Called("deleteMedicine") /\ b.medicineId = op.arg[2]
    \/ /\ Called("deleteMedicineBox")
       /\ \E box \in Range(pre.boxes) :
            /\ box.id = op.arg[1]
            /\ \/ b.boxName = box.name
               \/ \E m \in Range(box.medicines) : m.id = b.medicineId

(* C14: an alert is created unread, no call turns a read alert unread, and *)
(* markAllAlertsAsRead leaves every stored alert in place, read, with its  *)
(* other fields as they were.                                              *)
C14_ReadStateOneWay ==
  /\ \A a \in Range(alerts) :
       \/ \E b \in Range(pre.alerts) : b.id = a.id /\ (b.isRead => a.isRead)
       \/ (\A b \in Range(pre.alerts) : b.id # a.id) /\ ~a.isRead
  /\ Called("markAllAlertsAsRead") =>
       /\ Len(alerts) = Len(pre.alerts)
       /\ \A i \in DOMAIN alerts :
            alerts[i] = [pre.alerts[i] EXCEPT !.isRead = TRUE]

C14_Witness ==
  /\ Called("markAllAlertsAsRead")
  /\ Len(pre.alerts) >= 2
  /\ \E a, b \in Range(pre.alerts) : a.isRead /\ ~b.isRead

(* The last call named a box id, or a medicine id of that box, that was    *)
(* not stored when it was made.                                            *)
BoxNotFound == \A b \in Range(pre.boxes) : b.id # op.arg[1]

MedicineNotFound ==
  \A b \in Range(pre.boxes) :
    b.id = op.arg[1] => \A m \in Range(b.medicines) : m.id # op.arg[2]

(* C15: a box or medicine operation called with an id that is not in       *)
(* storage fails with an error and leaves the stored boxes and alerts      *)
(* as they were.                                                           *)
C15_NotFoundFails ==
  (\/ /\ op.name \in {"updateMedicineBox", "deleteMedicineBox", "addMedicine",
                      "updateMedicine", "deleteMedicine"}
      /\ BoxNotFound
   \/ /\ op.name \in {"updateMedicine", "deleteMedicine"}
      /\ MedicineNotFound)
  => /\ ret.error # ""
     /\ boxes = pre.boxes
     /\ alerts = pre.alerts

(* The exchange of the last device call failed: no answer, an answer with  *)
(* a status outside 2xx, or a 2xx answer whose body is not JSON.           *)
ExchangeFailed ==
  LET exchange == op.arg[1]
  IN \/ exchange.kind \in {"unreachable", "timeout"}
     \/ exchange.status \notin 200..299
     \/ exchange.body = "unparsable"

(* C16: testConnection, syncMedicines and getStatus return every failed    *)
(* exchange as a value with success = false and a message, and a 2xx       *)
(* answer as a value with a message; none of the four device operations    *)
(* throws.                                                                 *)
C16_DeviceFailuresAreValues ==
  /\ op.name \in {"testConnection", "syncMedicines", "getStatus", "disconnect"}
       => ret.error = ""
  /\ op.name \in {"testConnection", "syncMedicines", "getStatus"} =>
       /\ ret.error = ""
       /\ Len(ret.value.message) > 0
       /\ ExchangeFailed => ~ret.value.success

C16_Witness ==
  /\ Called("testConnection")
  /\ op.arg[1].kind = "response"
  /\ op.arg[1].status = 200
  /\ op.arg[1].body = "unparsable"
  /\ ~ret.value.success

(* C17: disconnect returns success = true for every outcome of the         *)
(* exchange.                                                               *)
C17_DisconnectAlwaysSucceeds ==
  Called("disconnect") => ret.error = "" /\ ret.value.success

(* C18: addMedicine on a stored box appends one medicine to that box and,  *)
(* when its currentCount is in 1..3, stores one more alert, an unread      *)
(* low_count alert for the new medicine; for any other count it stores no  *)
(* alert; the other boxes, medicines and alerts stay as they were.         *)
C18_AddMedicineLowStart ==
  (Called("addMedicine") /\ Succeeded) =>
    /\ DOMAIN boxes = DOMAIN pre.boxes
    /\ \A i \in DOMAIN boxes :
         IF pre.boxes[i].id # op.arg[1] THEN boxes[i] = pre.boxes[i]
         ELSE /\ Len(boxes[i].medicines) = Len(pre.boxes[i].medicines) + 1
              /\ SubSeq(boxes[i].medicines, 1, Len(pre.boxes[i].medicines))
                   = pre.boxes[i].medicines
              /\ boxes[i].medicines[Len(boxes[i].medicines)].id = op.arg[2]
              /\ boxes[i] = [pre.boxes[i] EXCEPT !.medicines = boxes[i].medicines,
                                                 !.updatedAt = now]
    /\ LET new == CHOOSE m \in Medicines(boxes) : m.id = op.arg[2]
       IN IF new.currentCount \in 1..3
          THEN /\ Len(alerts) = Len(pre.alerts) + 1
               /\ SubSeq(alerts, 1, Len(pre.alerts)) = pre.alerts
               /\ alerts[Len(alerts)].type = "low_count"
               /\ alerts[Len(alerts)].medicineId = new.id
               /\ ~alerts[Len(alerts)].isRead
          ELSE alerts = pre.alerts

C18_Witness ==
  /\ Called("addMedicine") /\ Succeeded
  /\ pre.alerts # <<>>
  /\ Len(alerts) > Len(pre.alerts)
  /\ Len(boxes[1].medicines) = 2

(* C19: when the item under the key is missing or is not parsable JSON,    *)
(* getFromStorage returns the default it was given and raises no error,    *)
(* and it leaves localStorage as it was.                                   *)
C19_ReadFailureGivesDefault ==
  Called("getFromStorage") =>
    LET key == op.arg[1]
        defaultValue == op.arg[2]
        items == op.arg[3]
    IN /\ localStorage = items
       /\ (key \notin DOMAIN items \/ items[key] = Corrupt) =>
            /\ ret.error = ""
            /\ ret.value = defaultValue

C19_Witness ==
  /\ Called("getFromStorage")
  /\ op.arg[1] \in DOMAIN localStorage
  /\ localStorage[op.arg[1]] = Corrupt
  /\ ret.error = ""

MinuteToday(scheduleTime) == toDateString(now) * DayLen + scheduleTime

(* C21: a dose whose minute passed without a dose tick is processed by a   *)
(* later tick: after a dose tick, every medicine that had stock before it  *)
(* has been deducted at or after each minute of today that its schedule    *)
(* names and that has passed (a deduction stamps the medicine's updatedAt).*)
C21_MissedDosesPickedUp ==
  Dosed =>
    \A s \in Slots(pre.boxes) :
      LET m == pre.boxes[s[1]].medicines[s[2]]
      IN m.currentCount > 0 =>
           \A k \in DOMAIN m.scheduleTime :
             (/\ m.createdAt <= MinuteToday(m.scheduleTime[k])
              /\ MinuteToday(m.scheduleTime[k]) < now)
             => boxes[s[1]].medicines[s[2]].updatedAt
                  >= MinuteToday(m.scheduleTime[k])

(* A box without the fields a connect, disconnect or sync may write *)
ConnectionFree(box) ==
  [box EXCEPT !.isConnected = FALSE, !.lastSyncAt = Undefined, !.updatedAt = 0]

(* The stored boxes differ from those before the last call at most in the  *)
(* connection fields of the boxes in targets.                              *)
OnlyConnectionWritten(targets) ==
  /\ DOMAIN boxes = DOMAIN pre.boxes
  /\ \A i \in DOMAIN boxes :
       IF i \in targets THEN ConnectionFree(boxes[i]) = ConnectionFree(pre.boxes[i])
       ELSE boxes[i] = pre.boxes[i]

HandlerDone ==
  op.name \in {"handleConnectBoxDone", "handleDisconnectBoxDone", "handleSyncBoxDone"}

(* C22: when a Dashboard connect, disconnect or sync handler finishes, the *)
(* stored boxes are those stored just before it finished, but for the      *)
(* target box's isConnected, lastSyncAt and updatedAt: what a dose tick,   *)
(* an add or a delete saved while the device was awaited is still stored.  *)
C22_HandlerKeepsOtherWrites ==
  HandlerDone =>
    OnlyConnectionWritten({i \in DOMAIN pre.boxes : pre.boxes[i].id = op.arg[1]})

ServiceDone == op.name \in {"syncWithESP32Done", "attemptESP32ConnectionDone"}

(* C23: when syncWithESP32 or attemptESP32Connection completes, the stored *)
(* boxes are those stored just before it completed, but for the target     *)
(* box's isConnected, lastSyncAt and updatedAt.                            *)
C23_ServiceKeepsOtherWrites ==
  ServiceDone =>
    OnlyConnectionWritten({i \in DOMAIN pre.boxes : pre.boxes[i].boxId = op.arg[1]})

(* The medicines whose low_count alert the last call dismissed: it marked  *)
(* the alert read (markAllAlertsAsRead), or marked it read and dropped it  *)
(* from storage (markAlertAsRead).                                         *)
DismissedLow ==
  IF Called("markAlertAsRead")
  THEN {b.medicineId : b \in {r \in Removed : r.type = "low_count"}}
  ELSE IF Called("markAllAlertsAsRead")
  THEN {a.medicineId : a \in {r \in Range(alerts) : r.type = "low_count"}}
  ELSE {}

(* C24: the operation that follows the dismissal of a medicine's low_count *)
(* alert stores no new low_count alert for that medicine unless it changes *)
(* the medicine's currentCount.                                            *)
C24_DismissedLowStaysDismissed ==
  [][\A id \in DismissedLow :
       CountOf(boxes', id) = CountOf(boxes, id) =>
         \A a \in Range(alerts') :
           (a.type = "low_count" /\ a.medicineId = id) =>
             \E b \in Range(alerts) : b.id = a.id]_vars

(* C25: after deleteMedicine or deleteMedicineBox, every alert that was    *)
(* stored before the call and whose medicineId is the id of a medicine     *)
(* still stored in some box is still stored, unchanged.                    *)
C25_CascadeRemovesNothingElse ==
  (Called("deleteMedicine") \/ Called("deleteMedicineBox")) =>
    \A a \in Range(pre.alerts) :
      (\E m \in Medicines(boxes) : m.id = a.medicineId) => a \in Range(alerts)

UnreadLow(list, id) == {k \in AlertsOf(list, id, "low_count") : ~list[k].isRead}

(* C26: storage never holds two unread low_count alerts for the same       *)
(* medicine id.                                                            *)
C26_OneUnreadLowPerMedicine ==
  \A a \in Range(alerts) : Cardinality(UnreadLow(alerts, a.medicineId)) <= 1

(* A dose tick lowered a count into the low range while the medicine's     *)
(* unread low_count alert was already stored.                              *)
C26_Witness ==
  /\ Dosed
  /\ \E s \in Slots(pre.boxes) :
       /\ s \in Slots(boxes)
       /\ Deducted(s[1], s[2])
       /\ IsLowCount(boxes[s[1]].medicines[s[2]].currentCount)
       /\ UnreadLow(pre.alerts, boxes[s[1]].medicines[s[2]].id) # {}
       /\ Cardinality(UnreadLow(alerts, boxes[s[1]].medicines[s[2]].id)) = 1

(* C27: one dose tick lowers the count of a medicine by at most 1 and      *)
(* returns at most one medicine_time alert for it, also when its schedule  *)
(* names the current minute twice; it never returns both a low_count and   *)
(* an out_of_stock alert for one medicine.                                 *)
C27_OneDeductionPerCall ==
  Dosed =>
    \A s \in Slots(pre.boxes) :
      LET m == pre.boxes[s[1]].medicines[s[2]]
      IN /\ m.currentCount - boxes[s[1]].medicines[s[2]].currentCount <= 1
         /\ Cardinality(TimeAlertsFor(ret.alerts, m.id)) <= 1
         /\ \/ AlertsOf(ret.alerts, m.id, "low_count") = {}
            \/ AlertsOf(ret.alerts, m.id, "out_of_stock") = {}

C27_Witness ==
  /\ Dosed
  /\ \E s \in Slots(pre.boxes) :
       /\ Cardinality(TokensAt(pre.boxes[s[1]].medicines[s[2]], now)) = 2
       /\ Deducted(s[1], s[2])
       /\ Cardinality(TimeAlertsFor(ret.alerts, pre.boxes[s[1]].medicines[s[2]].id)) = 1

Orphan(a, bs) == \A m \in Medicines(bs) : m.id # a.medicineId

(* C28: no dose tick, addMedicine, deleteMedicine or Dashboard connect,    *)
(* disconnect or sync handler orphans an alert: after it, every stored     *)
(* alert's medicineId is the id of a medicine stored in some box, unless   *)
(* that alert was stored before the call and had no such medicine then.    *)
C28_NoOrphanAlerts ==
  (Dosed \/ Called("addMedicine") \/ Called("deleteMedicine") \/ HandlerDone) =>
    \A a \in Range(alerts) :
      Orphan(a, boxes) => a \in Range(pre.alerts) /\ Orphan(a, pre.boxes)

(* C29: when syncWithESP32 returns status 'failed' the box is stored with  *)
(* isConnected = false, and when it returns status 'success' the box is    *)
(* stored with isConnected = true and the lastSyncAt of this sync.         *)
C29_StoredStateFollowsSync ==
  (Called("syncWithESP32Done") /\ Succeeded) =>
    \A b \in Range(boxes) :
      b.boxId = op.arg[1] =>
        IF ret.value.status = "failed" THEN ~b.isConnected
        ELSE b.isConnected /\ b.lastSyncAt = now

(* C30: saving the form of an existing medicine without touching the       *)
(* current-count field leaves the medicine's stored currentCount as it     *)
(* was before the edit, also when it was 0.                                *)
C30_EditKeepsStock ==
  Called("handleMedicineSaved") =>
    CountOf(boxes, op.arg[2]) = CountOf(pre.boxes, op.arg[2])

====
